---- MODULE Spec2Model ----
(***************************************************************************)
(* Model of src/bloom.ino: the soft robotic flower's behaviour engine.     *)
(*                                                                         *)
(* Numbers.  The sketch computes in 32-bit floats.  The model computes in  *)
(* exact rationals: a level is a pair (numerator, denominator), a          *)
(* probability is a whole number of hundredths, a random draw is the       *)
(* integer k returned by random(0,10000) (the float r is k/10000).         *)
(* Conversions float -> long / unsigned long truncate toward zero, as in   *)
(* C, and are modelled by ToLong.  Times are milliseconds; the model's     *)
(* clock stays below MaxNow, far from the 2^32 wrap of unsigned long.      *)
(***************************************************************************)
EXTENDS Integers, Sequences, FiniteSets, TLC

VARIABLES
    pc,                 \* position of the sketch / of the function under call
    clock,              \* the value millis() returns
    now,                \* loop(): local `now`
    current,            \* State current
    stateEndMs,         \* unsigned long stateEndMs
    lastUpdateMs,       \* unsigned long lastUpdateMs
    prevDesiredPMiddle, \* float prevDesiredPMiddle
    ledChaseIndex,      \* uint16_t ledChaseIndex
    SPEED_FACTOR,       \* float SPEED_FACTOR, as the rational <<num, den>>
    pin,                \* last value given to analogWrite, per pin
    leds,               \* LED ring: brightness and pixel colours
    dwell,              \* enterState(): local `dwell` of the last call
    enterMs,            \* enterState(): value of its millis() call
    entries,            \* number of enterState calls so far
    ran,                \* behaviour function run by the last loop() iteration
    arg,                \* arguments of the function under call (function specs)
    ret                 \* value returned by the function under call

vars == <<pc, clock, now, current, stateEndMs, lastUpdateMs,
          prevDesiredPMiddle, ledChaseIndex, SPEED_FACTOR, pin, leds,
          dwell, enterMs, entries, ran, arg, ret>>

(* ------------------------------ bounds -------------------------------- *)
\* target levels given to a regulator under call are n/RegDen, n in 0..RegDen
RegDen == 8
\* the clock of the running sketch is explored up to MaxNow milliseconds
MaxNow == 5100
\* fixed-point denominator of the waveform outputs
WaveDen == 10000
\* behaviours called alone get now = 500 * i, i in 0..MaxTimeSteps
MaxTimeSteps == 24
\* ledChaseIndex is explored up to MaxChase
MaxChase == 3
\* a waveform called alone is compared at t and t + k * period, k in 0..MaxPeriods
MaxPeriods == 2
\* the clock wrap is explored from WrapSpan ms before it to WrapSpan ms after
WrapSpan == 30
\* the sketch is explored write by write up to MaxStepNow milliseconds
MaxStepNow == 60

(* ----------------------------- constants ------------------------------ *)
NUM_LEDS == 16
AdcMax == 1023
RandMax == 10000
PwmMax == 255
DelayMs == 10

Modes == 0..4
NEUTRAL == 0
CALM == 1
CURIOUS == 2
ANGRY == 3
SAD == 4

\* const float P[5][5], in hundredths
P == <<
    <<10, 35, 25, 15, 15>>,
    <<25, 10, 30, 20, 15>>,
    <<10, 25, 10, 25, 30>>,
    <<25, 20, 10, 10, 35>>,
    <<30, 30, 10, 20, 10>> >>

\* const Range DWELL[5], seconds
DWELL == <<
    [lo |-> 5,  hi |-> 7],
    [lo |-> 7,  hi |-> 15],
    [lo |-> 5,  hi |-> 10],
    [lo |-> 10, hi |-> 13],
    [lo |-> 5,  hi |-> 12] >>

PinNames == {"PIN_PUMP_BASE", "PIN_VALVE_BASE", "PIN_PUMP_LEAVES", "PIN_VALVE_LEAVES"}

(* ------------------------------ helpers ------------------------------- *)
\* C conversion of the rational num/den (den > 0) to an integer type:
\* truncation toward zero
ToLong(num, den) ==
    IF num >= 0 THEN num \div den ELSE -((-num) \div den)

\* Arduino map(): long arithmetic, C division
map(x, in_min, in_max, out_min, out_max) ==
    ToLong((x - in_min) * (out_max - out_min), in_max - in_min) + out_min

\* analogWrite(p, v) for each <<p, v>> of the sequence, in order
RECURSIVE analogWrites(_, _)
analogWrites(pins, writes) ==
    IF writes = << >> THEN pins
    ELSE analogWrites([pins EXCEPT ![Head(writes)[1]] = Head(writes)[2]],
                      Tail(writes))

(* --------------------------- pressure regulator ----------------------- *)
\* setPressureMiddle with the pump sub-range [100,255] of the leaves channel
setPressureMiddle_leavesPumpRange(desiredNum, den, currentP) ==
    LET minP == 40
        maxP == 110
        errNum == currentP * den - ((maxP - minP) * desiredNum + minP * den)
    IN  IF errNum < (-10) * den
        THEN LET val == map(ToLong(-errNum, den), 0, maxP, 100, 255)
             IN  << <<"PIN_PUMP_BASE", val>>, <<"PIN_VALVE_BASE", 0>> >>
        ELSE IF errNum > 10 * den
        THEN LET val == map(ToLong(errNum, den), 0, maxP, 230, 255)
             IN  << <<"PIN_VALVE_BASE", val>>, <<"PIN_PUMP_BASE", 0>> >>
        ELSE << <<"PIN_PUMP_BASE", 0>>, <<"PIN_VALVE_BASE", 0>> >>

\* setPressureMiddle with the valve driven by `val` in the pump branch too
setPressureMiddle_valveLeftOn(desiredNum, den, currentP) ==
    LET minP == 40
        maxP == 110
        errNum == currentP * den - ((maxP - minP) * desiredNum + minP * den)
    IN  IF errNum < (-10) * den
        THEN LET val == map(ToLong(-errNum, den), 0, maxP, 50, 255)
             IN  << <<"PIN_PUMP_BASE", val>>, <<"PIN_VALVE_BASE", val>> >>
        ELSE IF errNum > 10 * den
        THEN LET val == map(ToLong(errNum, den), 0, maxP, 230, 255)
             IN  << <<"PIN_VALVE_BASE", val>>, <<"PIN_PUMP_BASE", 0>> >>
        ELSE << <<"PIN_PUMP_BASE", 0>>, <<"PIN_VALVE_BASE", 0>> >>

\* setPressureMiddle(desiredP = desiredNum/den) with analogRead(A1) = currentP:
\* the analogWrite calls it makes, in order
setPressureMiddle(desiredNum, den, currentP) ==
    LET minP == 40
        maxP == 110
        \* error = currentP - ((maxP - minP) * desiredP + minP), times den
        errNum == currentP * den - ((maxP - minP) * desiredNum + minP * den)
    IN  IF errNum < (-10) * den
        THEN LET val == map(ToLong(-errNum, den), 0, maxP, 50, 255)
             IN  << <<"PIN_PUMP_BASE", val>>, <<"PIN_VALVE_BASE", 0>> >>
        ELSE IF errNum > 10 * den
        THEN LET val == map(ToLong(errNum, den), 0, maxP, 230, 255)
             IN  << <<"PIN_VALVE_BASE", val>>, <<"PIN_PUMP_BASE", 0>> >>
        ELSE << <<"PIN_PUMP_BASE", 0>>, <<"PIN_VALVE_BASE", 0>> >>

\* setPressureLeaves with `error <= -10` for `error < -10`
setPressureLeaves_closedDeadband(desiredNum, den, currentP) ==
    LET minP == 40
        maxP == 600
        errNum == currentP * den - ((maxP - minP) * desiredNum + minP * den)
    IN  IF errNum <= (-10) * den
        THEN LET val == map(ToLong(-errNum, den), 0, maxP, 100, 255)
             IN  << <<"PIN_PUMP_LEAVES", val>>, <<"PIN_VALVE_LEAVES", 0>> >>
        ELSE IF errNum > 10 * den
        THEN LET val == map(ToLong(errNum, den), 0, maxP, 230, 255)
             IN  << <<"PIN_VALVE_LEAVES", val>>, <<"PIN_PUMP_LEAVES", 0>> >>
        ELSE << <<"PIN_PUMP_LEAVES", 0>>, <<"PIN_VALVE_LEAVES", 0>> >>

\* setPressureLeaves(desiredP = desiredNum/den) with analogRead(A2) = currentP
setPressureLeaves(desiredNum, den, currentP) ==
    LET minP == 40
        maxP == 600
        errNum == currentP * den - ((maxP - minP) * desiredNum + minP * den)
    IN  IF errNum < (-10) * den
        THEN LET val == map(ToLong(-errNum, den), 0, maxP, 100, 255)
             IN  << <<"PIN_PUMP_LEAVES", val>>, <<"PIN_VALVE_LEAVES", 0>> >>
        ELSE IF errNum > 10 * den
        THEN LET val == map(ToLong(errNum, den), 0, maxP, 230, 255)
             IN  << <<"PIN_VALVE_LEAVES", val>>, <<"PIN_PUMP_LEAVES", 0>> >>
        ELSE << <<"PIN_PUMP_LEAVES", 0>>, <<"PIN_VALVE_LEAVES", 0>> >>

(* ------------------------------ utilities ----------------------------- *)
\* frand(a, b) when random(0, 10000) returns k: the rational
\* a + (b - a) * k / 10000, as its numerator over RandMax
frand(a, b, k) == a * RandMax + (b - a) * k

\* sampleDwellMillis without the division by SPEED_FACTOR
sampleDwellMillis_unscaled(s, k, sf) ==
    ToLong(frand(DWELL[s + 1].lo, DWELL[s + 1].hi, k) * 1000, RandMax)

\* sampleDwellMillis(s) when random(0, 10000) returns k and SPEED_FACTOR is
\* sf[1]/sf[2]: (unsigned long)(frand(lo, hi) / SPEED_FACTOR * 1000)
sampleDwellMillis(s, k, sf) ==
    ToLong(frand(DWELL[s + 1].lo, DWELL[s + 1].hi, k) * 1000 * sf[2],
           RandMax * sf[1])

\* the loop of sampleNextState returning the loop index after the loop
RECURSIVE rouletteFrom_indexFallback(_, _, _, _)
rouletteFrom_indexFallback(row, k, n, acc) ==
    IF n >= 5 THEN n
    ELSE IF k * 100 <= (acc + row[n + 1]) * RandMax THEN n
    ELSE rouletteFrom_indexFallback(row, k, n + 1, acc + row[n + 1])

\* the loop of sampleNextState over one row of P (hundredths), from index n
\* with the sum acc of the entries before n; r = k / 10000
RECURSIVE rouletteFrom(_, _, _, _)
rouletteFrom(row, k, n, acc) ==
    IF n >= 5 THEN 4
    ELSE IF k * 100 <= (acc + row[n + 1]) * RandMax THEN n
    ELSE rouletteFrom(row, k, n + 1, acc + row[n + 1])

\* sampleNextState(s) when random(0, 10000) returns k
sampleNextState(s, k) == rouletteFrom(P[s + 1], k, 0, 0)

\* ledsFill(r, g, b, brightness): the ring after the call
ledsFill(r, g, b, brightness) ==
    [brightness |-> brightness,
     pixels |-> [i \in 0..(NUM_LEDS - 1) |-> <<r, g, b>>]]

(* ------------------------------ waveforms ----------------------------- *)
\* sinf(a) for an angle a in 0..2*pi given in 1e-4 rad; result in 1e-4.
\* Horner form of x - x^3/3! + x^5/5! - x^7/7! on the first quarter.
sinf(a) ==
    LET pi == 31416
        q(x) == LET x2 == (x * x) \div 10000
                    t3 == 10000 - x2 \div 42
                    t2 == 10000 - ((x2 * t3) \div 10000) \div 20
                    t1 == 10000 - ((x2 * t2) \div 10000) \div 6
                IN  (x * t1) \div 10000
    IN  IF a <= pi \div 2 THEN q(a)
        ELSE IF a <= pi THEN q(pi - a)
        ELSE IF a <= pi + pi \div 2 THEN -q(a - pi)
        ELSE -q(2 * pi - a)

\* sineWave(t, period, minL, maxL), minL and maxL in hundredths;
\* result as a numerator over WaveDen
sineWave(t, period, minL, maxL) ==
    LET per == IF period < 10 THEN 10 ELSE period
        phase == ((t % per) * 10000) \div per          \* 1e-4 of a turn
        s == sinf((phase * 62832) \div 10000)          \* 2.0f * 3.14159f * phase
        y == 10000 + s                                 \* 2 * (0.5 + 0.5 * s)
        \* minL + (maxL - minL) * y, in 1e-4
        lvl == ToLong(minL * 20000 + (maxL - minL) * y, 200)
    IN  ToLong(lvl * WaveDen, 10000)

\* `if (period < 10) period = 10;` of triWave, sineWave and squareWave
clampPeriod(period) == IF period < 10 THEN 10 ELSE period

\* the divisor of `t % period` in the waveform fn called with `period`:
\* heartPulse uses its argument as it is
wavePeriod(fn, period) ==
    IF fn = "heartPulse" THEN period ELSE clampPeriod(period)

\* triWave with the phase taken from t instead of t % period
triWave_noModulo(t, period, minL, maxL) ==
    LET per == clampPeriod(period)
        x == t
        y == IF 2 * x < per THEN 2 * x ELSE 2 * per - 2 * x
        lvl == ToLong((minL * per + (maxL - minL) * y) * 100, per)
    IN  ToLong(lvl * WaveDen, 10000)

\* triWave(t, period, minL, maxL), minL and maxL in hundredths;
\* result as a numerator over WaveDen
triWave(t, period, minL, maxL) ==
    LET per == clampPeriod(period)
        x == t % per
        \* y * per, with y = phase < 0.5 ? phase * 2 : 2 - phase * 2
        y == IF 2 * x < per THEN 2 * x ELSE 2 * per - 2 * x
        \* minL + (maxL - minL) * y, in 1e-4
        lvl == ToLong((minL * per + (maxL - minL) * y) * 100, per)
    IN  ToLong(lvl * WaveDen, 10000)

\* squareWave with the phase taken from t instead of t % period
squareWave_noModulo(t, period, duty) ==
    LET per == clampPeriod(period)
        x == t
    IN  IF x * 100 < duty * per THEN WaveDen ELSE 0

\* squareWave(t, period, duty), duty in hundredths; numerator over WaveDen
squareWave(t, period, duty) ==
    LET per == clampPeriod(period)
        x == t % per
    IN  IF x * 100 < duty * per THEN WaveDen ELSE 0

\* largest r in lo..hi with r * r <= n
RECURSIVE isqrt(_, _, _)
isqrt(n, lo, hi) ==
    IF lo >= hi THEN lo
    ELSE LET mid == (lo + hi + 1) \div 2
         IN  IF mid * mid <= n THEN isqrt(n, mid, hi) ELSE isqrt(n, lo, mid - 1)

\* powf(a, 3.5f) for a in 0..1 given in 1e-4; result in 1e-4
powf35(a) ==
    LET a2 == (a * a) \div 10000
        a3 == (a2 * a) \div 10000
        rt == isqrt(a * 10000, 0, 10000)
    IN  (a3 * rt) \div 10000

\* heartPulse(t, period) for period > 0; numerator over WaveDen.
\* With period = 0 the C expression t % period is undefined.
heartPulse(t, period) ==
    LET phase == ((t % period) * 10000) \div period
        s == sinf((phase * 62832) \div 10000)
        y == powf35(IF s < 0 THEN -s ELSE s)
    IN  ToLong(y * WaveDen, 10000)

\* hsv(h, s, v) with h, s, v in 1e-4: the RGB triple
hsv(h, s, v) ==
    LET i == (h * 6) \div 10000
        f == h * 6 - i * 10000
        p == (v * (10000 - s)) \div 10000
        q == (v * (10000 - (f * s) \div 10000)) \div 10000
        t == (v * (10000 - ((10000 - f) * s) \div 10000)) \div 10000
        c == i % 6
        rgb == IF c = 0 THEN <<v, t, p>>
               ELSE IF c = 1 THEN <<q, v, p>>
               ELSE IF c = 2 THEN <<p, v, t>>
               ELSE IF c = 3 THEN <<p, q, v>>
               ELSE IF c = 4 THEN <<t, p, v>>
               ELSE <<v, p, q>>
    IN  <<(rgb[1] * 255) \div 10000, (rgb[2] * 255) \div 10000,
          (rgb[3] * 255) \div 10000>>

(* ------------------------------ behaviours ---------------------------- *)
\* MAX_PWM_BASE, MAX_PWM_LEAVES: declared "cap to protect pumps", read by
\* levelToPWM only, which no live code calls
MAX_PWM_BASE == 220
MAX_PWM_LEAVES == 220

\* (uint8_t)(c0 + level * c1) for a level given as a numerator over WaveDen
scaleLevel(c0, c1, level) == ToLong(c0 * WaveDen + level * c1, WaveDen)

\* Each behaviour, called with now = t, analogRead(A1) = a1,
\* analogRead(A2) = a2 and ledChaseIndex = chase, gives: the two target
\* levels (numerators over WaveDen), the time argument of the leaves
\* waveform, the analogWrite calls in order, and the new values of
\* prevDesiredPMiddle, the LED ring and ledChaseIndex.

\* runNeutral(now) with analogRead(A1) = a1, analogRead(A2) = a2
runNeutral(t, a1, a2) ==
    LET period == ToLong(8000 * SPEED_FACTOR[2], SPEED_FACTOR[1])
        baseL == sineWave(t, period, 10, 85)
    IN  [baseL |-> baseL,
         leavesL |-> 0,
         leavesT |-> t,
         writes |-> setPressureMiddle(baseL, WaveDen, a1)
                    \o setPressureLeaves(0, WaveDen, a2),
         prevDesiredPMiddle |-> a1,
         leds |-> ledsFill(100, 100, 100, 100)]

\* runCalm(now)
runCalm(t, a1, a2) ==
    LET period == ToLong(8000 * SPEED_FACTOR[2], SPEED_FACTOR[1])
        baseL == sineWave(t, period, 10, 85)
        leavesT == t + ToLong(500 * SPEED_FACTOR[2], SPEED_FACTOR[1])
        leavesL == sineWave(leavesT, period, 10, 55)
        c == hsv(4800, 6000, 9000)
    IN  [baseL |-> baseL,
         leavesL |-> leavesL,
         leavesT |-> leavesT,
         writes |-> setPressureMiddle(baseL, WaveDen, a1)
                    \o setPressureLeaves(leavesL, WaveDen, a2),
         prevDesiredPMiddle |-> a1,
         leds |-> ledsFill(c[1], c[2], c[3], scaleLevel(20, 120, baseL))]

\* runCurious(now) with ledChaseIndex = chase
runCurious(t, a1, a2, chase) ==
    LET pulsePeriod == ToLong(1200 * SPEED_FACTOR[2], SPEED_FACTOR[1])
        leavesPulse == triWave(t, pulsePeriod, 15, 85)
        baseL == WaveDen \div 2
        \* the pixel idx = (i + ledChaseIndex/2) % NUM_LEDS gets the full
        \* colour when idx = i, a quarter of it otherwise
        px(i) == IF (i + chase \div 2) % NUM_LEDS = i
                 THEN <<220, 180, 40>> ELSE <<55, 45, 10>>
    IN  [baseL |-> baseL,
         leavesL |-> leavesPulse,
         leavesT |-> t,
         writes |-> setPressureMiddle(baseL, WaveDen, a1)
                    \o setPressureLeaves(leavesPulse, WaveDen, a2),
         prevDesiredPMiddle |-> a1,
         leds |-> [brightness |-> 60,
                   pixels |-> [j \in 0..(NUM_LEDS - 1) |->
                       \* the i with (i + ledChaseIndex/2) % NUM_LEDS = j
                       px((j + NUM_LEDS - ((chase \div 2) % NUM_LEDS)) % NUM_LEDS)]],
         ledChaseIndex |-> (chase + 1) % (NUM_LEDS * 4)]

\* runAngry(now) with ledChaseIndex = chase; needs 500 / SPEED_FACTOR >= 1
runAngry(t, a1, a2, chase) ==
    LET burstPeriod == ToLong(900 * SPEED_FACTOR[2], SPEED_FACTOR[1])
        baseL == squareWave(t, burstPeriod, 45)
        \* 0.5f + baseL * (0.8f - 0.5f)
        leavesL == ToLong(50 * WaveDen + 30 * baseL, 100)
        hb == heartPulse(t, ToLong(500 * SPEED_FACTOR[2], SPEED_FACTOR[1]))
    IN  [baseL |-> baseL,
         leavesL |-> leavesL,
         leavesT |-> t,
         writes |-> setPressureMiddle(baseL, WaveDen, a1)
                    \o setPressureLeaves(leavesL, WaveDen, a2),
         prevDesiredPMiddle |-> a1,
         leds |-> [brightness |-> scaleLevel(80, 120, hb),
                   pixels |-> [i \in 0..(NUM_LEDS - 1) |->
                       IF i = chase % NUM_LEDS THEN <<255, 100, 0>>
                       ELSE <<255, 60, 0>>]],
         ledChaseIndex |-> IF t % 60 = 0 THEN (chase + 1) % 65536 ELSE chase]

\* runSad(now)
runSad(t, a1, a2) ==
    LET period == ToLong(12000 * SPEED_FACTOR[2], SPEED_FACTOR[1])
        baseL == sineWave(t, period, 5, 35)
        leavesT == t + ToLong(800 * SPEED_FACTOR[2], SPEED_FACTOR[1])
        leavesL == sineWave(leavesT, period, 3, 25)
        \* v = 0.15f + baseL * 0.4f, in 1e-4
        v == ToLong(1500 * WaveDen + baseL * 4000, WaveDen)
        c == hsv(7000, 6000, v)
    IN  [baseL |-> baseL,
         leavesL |-> leavesL,
         leavesT |-> leavesT,
         writes |-> setPressureMiddle(baseL, WaveDen, a1)
                    \o setPressureLeaves(leavesL, WaveDen, a2),
         prevDesiredPMiddle |-> a1,
         leds |-> ledsFill(c[1], c[2], c[3], (30 * 10000 + v * 80) \div 10000)]

\* runBehavior(s, now): the record of the behaviour of mode s, with the
\* new ledChaseIndex for every mode
runBehavior(s, t, a1, a2, chase) ==
    IF s = NEUTRAL THEN runNeutral(t, a1, a2) @@ [ledChaseIndex |-> chase]
    ELSE IF s = CALM THEN runCalm(t, a1, a2) @@ [ledChaseIndex |-> chase]
    ELSE IF s = CURIOUS THEN runCurious(t, a1, a2, chase)
    ELSE IF s = ANGRY THEN runAngry(t, a1, a2, chase)
    ELSE runSad(t, a1, a2) @@ [ledChaseIndex |-> chase]

\* enterState with stateEndMs = dwell, the clock reading left out
enterState_noClock(s, k, t) ==
    LET d == sampleDwellMillis(s, k, SPEED_FACTOR)
    IN  [dwell |-> d, stateEndMs |-> d]

\* enterState(s) when random(0, 10000) returns k and millis() returns t:
\* the local dwell and the new stateEndMs
enterState(s, k, t) ==
    LET d == sampleDwellMillis(s, k, SPEED_FACTOR)
    IN  [dwell |-> d, stateEndMs |-> t + d]

(* ------------------------- the running sketch ------------------------- *)
\* milliseconds setup() takes before / between its millis() calls
BootMs == {2}
ReadGapMs == {0, 1}
\* milliseconds one loop() body takes on top of delay(10)
ExecMs == {0, 1}
\* analogRead values tried per tick, and random(0,10000) values at setup
AdcSamples == {0, AdcMax}
SetupDraws == {0, RandMax - 1}

NoArg == [fn |-> "none"]

Init ==
    /\ pc = "boot"
    /\ clock = 0
    /\ now = 0
    /\ current = NEUTRAL
    /\ stateEndMs = 0
    /\ lastUpdateMs = 0
    /\ prevDesiredPMiddle = 0
    /\ ledChaseIndex = 0
    /\ SPEED_FACTOR = <<1, 1>>
    /\ pin = [p \in PinNames |-> 0]
    /\ leds = ledsFill(0, 0, 0, 0)
    /\ dwell = 0
    /\ enterMs = 0
    /\ entries = 0
    /\ ran = -1
    /\ arg = NoArg
    /\ ret = -1

\* setup(): outputs off, ring initialised, current = NEUTRAL,
\* enterState(current), lastUpdateMs = millis()
setup ==
    /\ pc = "boot"
    /\ \E b \in BootMs, g \in ReadGapMs, k \in SetupDraws :
         LET e == enterState(NEUTRAL, k, clock + b) IN
         /\ pin' = analogWrites(pin, << <<"PIN_PUMP_BASE", 0>>,
                                        <<"PIN_PUMP_LEAVES", 0>>,
                                        <<"PIN_VALVE_BASE", 0>>,
                                        <<"PIN_VALVE_LEAVES", 0>> >>)
         /\ leds' = [leds EXCEPT !.brightness = 50]
         /\ current' = NEUTRAL
         \* enterState(current)
         /\ dwell' = e.dwell
         /\ enterMs' = clock + b
         /\ stateEndMs' = e.stateEndMs
         /\ entries' = entries + 1
         /\ lastUpdateMs' = clock + b + g
         /\ clock' = clock + b + g
    /\ pc' = "ready"
    /\ UNCHANGED <<now, prevDesiredPMiddle, ledChaseIndex, SPEED_FACTOR,
                   ran, arg, ret>>

\* loop(): now = millis(); runNeutral(now); delay(10)
loop ==
    /\ pc \in {"ready", "running"}
    /\ \E a1 \in AdcSamples, a2 \in AdcSamples, e \in ExecMs :
        \E b \in {runNeutral(clock, a1, a2)} :
         /\ clock + e + DelayMs <= MaxNow
         /\ now' = clock
         /\ pin' = analogWrites(pin, b.writes)
         /\ prevDesiredPMiddle' = b.prevDesiredPMiddle
         /\ leds' = b.leds
         /\ ran' = NEUTRAL
         /\ clock' = clock + e + DelayMs
    /\ pc' = "running"
    /\ UNCHANGED <<current, stateEndMs, lastUpdateMs, ledChaseIndex,
                   SPEED_FACTOR, dwell, enterMs, entries, arg, ret>>

Next == setup \/ loop

Spec == Init /\ [][Next]_vars

(* ---------------- the pressure regulators, called alone --------------- *)
\* the globals as the sketch constructs them
Constructed ==
    /\ clock = 0
    /\ now = 0
    /\ current = NEUTRAL
    /\ stateEndMs = 0
    /\ lastUpdateMs = 0
    /\ prevDesiredPMiddle = 0
    /\ ledChaseIndex = 0
    /\ pin = [p \in PinNames |-> 0]
    /\ leds = ledsFill(0, 0, 0, 0)
    /\ dwell = 0
    /\ enterMs = 0
    /\ entries = 0
    /\ ran = -1
    /\ ret = -1

\* one call of a regulator with target level desiredNum/RegDen and the
\* channel's analogRead returning currentP
RegInit ==
    /\ Constructed
    /\ SPEED_FACTOR = <<1, 1>>
    /\ pc = "call"
    /\ arg \in [fn : {"setPressureMiddle", "setPressureLeaves"},
                desiredNum : 0..RegDen,
                currentP : 0..AdcMax]

callSetPressureMiddle ==
    /\ pc = "call"
    /\ arg.fn = "setPressureMiddle"
    /\ pin' = analogWrites(pin, setPressureMiddle(arg.desiredNum, RegDen, arg.currentP))
    /\ prevDesiredPMiddle' = arg.currentP
    /\ pc' = "returned"
    /\ UNCHANGED <<clock, now, current, stateEndMs, lastUpdateMs, ledChaseIndex,
                   SPEED_FACTOR, leds, dwell, enterMs, entries, ran, arg, ret>>

callSetPressureLeaves ==
    /\ pc = "call"
    /\ arg.fn = "setPressureLeaves"
    /\ pin' = analogWrites(pin, setPressureLeaves(arg.desiredNum, RegDen, arg.currentP))
    /\ pc' = "returned"
    /\ UNCHANGED <<clock, now, current, stateEndMs, lastUpdateMs,
                   prevDesiredPMiddle, ledChaseIndex, SPEED_FACTOR, leds,
                   dwell, enterMs, entries, ran, arg, ret>>

RegNext == callSetPressureMiddle \/ callSetPressureLeaves

RegSpec == RegInit /\ [][RegNext]_vars

(* --------------------- the samplers, called alone --------------------- *)
\* rows of a transition matrix tried: the five rows of P, rows that sum to
\* less than 1, and rows whose leading entries are 0 (hundredths)
Rows ==
    {P[i] : i \in 1..5} \cup
    {<<10, 10, 10, 10, 10>>, <<20, 20, 20, 20, 10>>,
     <<60, 30, 0, 0, 0>>, <<0, 50, 50, 0, 0>>, <<0, 0, 30, 30, 40>>}

\* values of SPEED_FACTOR tried, as <<num, den>>
SpeedFactors == {<<1, 1>>, <<2, 1>>, <<3, 1>>, <<1, 2>>}

SamplerInit ==
    /\ Constructed
    /\ SPEED_FACTOR \in SpeedFactors
    /\ pc = "call"
    /\ \/ /\ SPEED_FACTOR = <<1, 1>>
          /\ arg \in [fn : {"sampleNextState"}, row : Rows, k : 0..(RandMax - 1)]
       \/ arg \in [fn : {"sampleDwellMillis"}, s : Modes, k : 0..(RandMax - 1)]
       \/ /\ SPEED_FACTOR = <<1, 1>>
          /\ arg \in [fn : {"countDraws"}, s : Modes, j : Modes]

\* sampleNextState on the row arg.row, random(0, 10000) returning arg.k
callSampleNextState ==
    /\ pc = "call"
    /\ arg.fn = "sampleNextState"
    /\ ret' = rouletteFrom(arg.row, arg.k, 0, 0)
    /\ pc' = "returned"
    /\ UNCHANGED <<clock, now, current, stateEndMs, lastUpdateMs,
                   prevDesiredPMiddle, ledChaseIndex, SPEED_FACTOR, pin, leds,
                   dwell, enterMs, entries, ran, arg>>

\* sampleDwellMillis(arg.s), random(0, 10000) returning arg.k
callSampleDwellMillis ==
    /\ pc = "call"
    /\ arg.fn = "sampleDwellMillis"
    /\ ret' = sampleDwellMillis(arg.s, arg.k, SPEED_FACTOR)
    /\ pc' = "returned"
    /\ UNCHANGED <<clock, now, current, stateEndMs, lastUpdateMs,
                   prevDesiredPMiddle, ledChaseIndex, SPEED_FACTOR, pin, leds,
                   dwell, enterMs, entries, ran, arg>>

\* sampleNextState(arg.s) called once for each value random(0, 10000) can
\* return: the number of calls that return arg.j
callCountDraws ==
    /\ pc = "call"
    /\ arg.fn = "countDraws"
    /\ ret' = Cardinality({k \in 0..(RandMax - 1) : sampleNextState(arg.s, k) = arg.j})
    /\ pc' = "returned"
    /\ UNCHANGED <<clock, now, current, stateEndMs, lastUpdateMs,
                   prevDesiredPMiddle, ledChaseIndex, SPEED_FACTOR, pin, leds,
                   dwell, enterMs, entries, ran, arg>>

SamplerNext == callSampleNextState \/ callSampleDwellMillis \/ callCountDraws

SamplerSpec == SamplerInit /\ [][SamplerNext]_vars

(* -------------------- the behaviours, called in turn ------------------ *)
\* clock readings passed to the behaviours
BehaviourTimes == {500 * i : i \in 0..MaxTimeSteps} \cup {60}

BehaviourInit ==
    /\ Constructed
    /\ SPEED_FACTOR = <<1, 1>>
    /\ pc = "idle"
    /\ arg = NoArg

\* runBehavior(s, t) with analogRead(A1) = a1 and analogRead(A2) = a2
callRunBehavior(s) ==
    /\ pc \in {"idle", "ran"}
    /\ \E t \in BehaviourTimes, a1 \in AdcSamples, a2 \in AdcSamples :
        \E b \in {runBehavior(s, t, a1, a2, ledChaseIndex)} :
         /\ b.ledChaseIndex <= MaxChase
         /\ arg' = [fn |-> "runBehavior", t |-> t, a1 |-> a1, a2 |-> a2]
         /\ ret' = [baseL |-> b.baseL, leavesL |-> b.leavesL, leavesT |-> b.leavesT]
         /\ pin' = analogWrites(pin, b.writes)
         /\ prevDesiredPMiddle' = b.prevDesiredPMiddle
         /\ leds' = b.leds
         /\ ledChaseIndex' = b.ledChaseIndex
    /\ ran' = s
    /\ pc' = "ran"
    /\ UNCHANGED <<clock, now, current, stateEndMs, lastUpdateMs,
                   SPEED_FACTOR, dwell, enterMs, entries>>

callRunNeutral == callRunBehavior(NEUTRAL)
callRunCalm == callRunBehavior(CALM)
callRunCurious == callRunBehavior(CURIOUS)
callRunAngry == callRunBehavior(ANGRY)
callRunSad == callRunBehavior(SAD)

BehaviourNext ==
    \/ callRunNeutral
    \/ callRunCalm
    \/ callRunCurious
    \/ callRunAngry
    \/ callRunSad

BehaviourSpec == BehaviourInit /\ [][BehaviourNext]_vars

(* --------------------- the waveforms, called alone -------------------- *)
\* periods tried: the ones the behaviours use at SPEED_FACTOR 1, the
\* clamping threshold, one below it, and 0 (a period constant divided by a
\* SPEED_FACTOR larger than it)
WavePeriods == {0, 5, 10, 500, 900, 1200, 8000, 12000}
WaveTimes == {0, 1, 7, 125, 250, 449, 600, 2000, 6000, 11999}
\* <<minL, maxL>> in hundredths, as the behaviours pass them
WaveRanges == {<<10, 85>>, <<10, 55>>, <<15, 85>>, <<5, 35>>, <<3, 25>>}
\* duty in hundredths
WaveDuties == {45}

WaveInit ==
    /\ Constructed
    /\ SPEED_FACTOR = <<1, 1>>
    /\ pc = "call"
    /\ \/ arg \in [fn : {"triWave", "sineWave"}, t : WaveTimes,
                   period : WavePeriods, k : 0..MaxPeriods, range : WaveRanges]
       \/ arg \in [fn : {"squareWave"}, t : WaveTimes,
                   period : WavePeriods, k : 0..MaxPeriods, duty : WaveDuties]
       \/ arg \in [fn : {"heartPulse"}, t : WaveTimes,
                   period : WavePeriods, k : 0..MaxPeriods]

\* what a call leaves: the divisor of `t % period`, the value at t and the
\* value of the same call at t + k * period
WaveReturn(div, out, outK) == [div |-> div, out |-> out, outK |-> outK]

WaveUnchanged ==
    UNCHANGED <<clock, now, current, stateEndMs, lastUpdateMs,
                prevDesiredPMiddle, ledChaseIndex, SPEED_FACTOR, pin, leds,
                dwell, enterMs, entries, ran, arg>>

callTriWave ==
    /\ pc = "call"
    /\ arg.fn = "triWave"
    /\ ret' = WaveReturn(wavePeriod(arg.fn, arg.period),
                triWave(arg.t, arg.period, arg.range[1], arg.range[2]),
                triWave(arg.t + arg.k * arg.period, arg.period,
                        arg.range[1], arg.range[2]))
    /\ pc' = "returned"
    /\ WaveUnchanged

callSineWave ==
    /\ pc = "call"
    /\ arg.fn = "sineWave"
    /\ ret' = WaveReturn(wavePeriod(arg.fn, arg.period),
                sineWave(arg.t, arg.period, arg.range[1], arg.range[2]),
                sineWave(arg.t + arg.k * arg.period, arg.period,
                         arg.range[1], arg.range[2]))
    /\ pc' = "returned"
    /\ WaveUnchanged

callSquareWave ==
    /\ pc = "call"
    /\ arg.fn = "squareWave"
    /\ ret' = WaveReturn(wavePeriod(arg.fn, arg.period),
                squareWave(arg.t, arg.period, arg.duty),
                squareWave(arg.t + arg.k * arg.period, arg.period, arg.duty))
    /\ pc' = "returned"
    /\ WaveUnchanged

\* heartPulse; with period = 0 the expression t % period is undefined and
\* the value returned is arbitrary
callHeartPulse ==
    /\ pc = "call"
    /\ arg.fn = "heartPulse"
    /\ IF wavePeriod(arg.fn, arg.period) = 0
       THEN \E v \in {0, WaveDen}, w \in {0, WaveDen} :
                ret' = WaveReturn(0, v, w)
       ELSE ret' = WaveReturn(wavePeriod(arg.fn, arg.period),
                       heartPulse(arg.t, arg.period),
                       heartPulse(arg.t + arg.k * arg.period, arg.period))
    /\ pc' = "returned"
    /\ WaveUnchanged

WaveNext == callTriWave \/ callSineWave \/ callSquareWave \/ callHeartPulse

WaveSpec == WaveInit /\ [][WaveNext]_vars

(* ------------------ the waveform phase at the clock wrap --------------- *)
\* An unsigned long t is held as <<hi, lo>> with t = hi * 65536 + lo, both
\* halves in 0..65535, so that values up to 2^32 - 1 can be written.
Half == 65536

\* t + d in unsigned long arithmetic, for 0 <= d < 65536
U32Add(t, d) ==
    IF t[2] + d < Half THEN <<t[1], t[2] + d>>
    ELSE <<(t[1] + 1) % Half, t[2] + d - Half>>

\* t % p in unsigned long arithmetic, for 0 < p < 46341
U32Mod(t, p) == ((((t[1] % p) * (Half % p)) % p) + (t[2] % p)) % p

\* the `t % period` of triWave, sineWave and squareWave at the clock reading t
phaseIndex32(t, period) == U32Mod(t, clampPeriod(period))

\* the periods of the behaviours at SPEED_FACTOR 1
BehaviourPeriods == {8000, 12000, 1200, 900, 500}

WrapInit ==
    /\ Constructed
    /\ SPEED_FACTOR = <<1, 1>>
    /\ pc = "ticking"
    /\ \E p \in BehaviourPeriods, j \in 1..WrapSpan :
         arg = [fn |-> "phase", period |-> p, t |-> <<Half - 1, Half - j>>]

\* one more loop() iteration: millis() has advanced by delay(10) and the
\* time the body took; the waveform takes its phase from the new reading
tickNearWrap ==
    /\ pc \in {"ticking", "ticked"}
    /\ arg.t[1] = Half - 1 \/ arg.t[2] < WrapSpan
    /\ \E e \in ExecMs :
         /\ arg' = [arg EXCEPT !.t = U32Add(@, DelayMs + e)]
         /\ ret' = [before |-> phaseIndex32(arg.t, arg.period),
                    elapsed |-> DelayMs + e,
                    after |-> phaseIndex32(arg'.t, arg.period)]
    /\ pc' = "ticked"
    /\ UNCHANGED <<clock, now, current, stateEndMs, lastUpdateMs,
                   prevDesiredPMiddle, ledChaseIndex, SPEED_FACTOR, pin, leds,
                   dwell, enterMs, entries, ran>>

WrapNext == tickNearWrap

WrapSpec == WrapInit /\ [][WrapNext]_vars

(* ------------------- the sketch, one analogWrite at a time ------------- *)
\* loop() up to the first analogWrite: now = millis(), the sensors are
\* read and the writes of runNeutral(now) are pending
loopBegin ==
    /\ pc \in {"ready", "running"}
    /\ clock + DelayMs <= MaxStepNow
    /\ \E a1 \in AdcSamples, a2 \in AdcSamples :
         arg' = [fn |-> "loop", a1 |-> a1,
                 writes |-> runNeutral(clock, a1, a2).writes]
    /\ now' = clock
    /\ pc' = "writing"
    /\ UNCHANGED <<clock, current, stateEndMs, lastUpdateMs, prevDesiredPMiddle,
                   ledChaseIndex, SPEED_FACTOR, pin, leds, dwell, enterMs,
                   entries, ran, ret>>

\* the next analogWrite of the iteration; setPressureMiddle stores
\* prevDesiredPMiddle after its second write
analogWriteStep ==
    /\ pc = "writing"
    /\ arg.writes # << >>
    /\ pin' = analogWrites(pin, <<Head(arg.writes)>>)
    /\ prevDesiredPMiddle' = IF Len(arg.writes) = 3 THEN arg.a1
                             ELSE prevDesiredPMiddle
    /\ arg' = [arg EXCEPT !.writes = Tail(@)]
    /\ UNCHANGED <<pc, clock, now, current, stateEndMs, lastUpdateMs,
                   ledChaseIndex, SPEED_FACTOR, leds, dwell, enterMs,
                   entries, ran, ret>>

\* the rest of the iteration: ledsFill and delay(10)
loopEnd ==
    /\ pc = "writing"
    /\ arg.writes = << >>
    /\ leds' = ledsFill(100, 100, 100, 100)
    /\ ran' = NEUTRAL
    /\ clock' = clock + DelayMs
    /\ arg' = NoArg
    /\ pc' = "running"
    /\ UNCHANGED <<now, current, stateEndMs, lastUpdateMs, prevDesiredPMiddle,
                   ledChaseIndex, SPEED_FACTOR, pin, dwell, enterMs,
                   entries, ret>>

StepNext == setup \/ loopBegin \/ analogWriteStep \/ loopEnd

StepSpec == Init /\ [][StepNext]_vars

(* ============================ properties ============================== *)

\* C1: after one regulator call, on either channel, the pump command and
\* the valve command of the channel are never both above 0.
RegulatorExclusive ==
    pc = "returned" =>
        /\ ~(pin["PIN_PUMP_BASE"] > 0 /\ pin["PIN_VALVE_BASE"] > 0)
        /\ ~(pin["PIN_PUMP_LEAVES"] > 0 /\ pin["PIN_VALVE_LEAVES"] > 0)

\* a base-channel call that pumps
RegulatorExclusive_witness ==
    /\ pc = "returned"
    /\ arg.fn = "setPressureMiddle"
    /\ pin["PIN_PUMP_BASE"] > 0
    /\ pin["PIN_VALVE_BASE"] = 0

\* C2: every pump and valve command written by a regulator call lies in
\* 0..255.
CommandsWithinPwmRange ==
    pc = "returned" => \A p \in PinNames : pin[p] \in 0..PwmMax

\* C3: with error = currentP - (minP + (maxP - minP) * level): inside the
\* deadband |error| <= 10 both commands are 0; for error < -10 only the pump
\* is nonzero; for error > 10 only the valve is nonzero.
RegulatorDeadband ==
    pc = "returned" =>
        LET mid == arg.fn = "setPressureMiddle"
            maxP == IF mid THEN 110 ELSE 600
            e == arg.currentP * RegDen - (40 * RegDen + (maxP - 40) * arg.desiredNum)
            pump == IF mid THEN pin["PIN_PUMP_BASE"] ELSE pin["PIN_PUMP_LEAVES"]
            valve == IF mid THEN pin["PIN_VALVE_BASE"] ELSE pin["PIN_VALVE_LEAVES"]
        IN  /\ (e >= (-10) * RegDen /\ e <= 10 * RegDen) => (pump = 0 /\ valve = 0)
            /\ e < (-10) * RegDen => (pump # 0 /\ valve = 0)
            /\ e > 10 * RegDen => (valve # 0 /\ pump = 0)

\* a leaves-channel call with error exactly -10 that holds
RegulatorDeadband_witness ==
    /\ pc = "returned"
    /\ arg.fn = "setPressureLeaves"
    /\ arg.desiredNum = 0
    /\ arg.currentP = 30
    /\ pin["PIN_PUMP_LEAVES"] = 0
    /\ pin["PIN_VALVE_LEAVES"] = 0

\* C4: every loop() iteration runs the state machine's check-and-advance
\* step and the behaviour of the current mode: after an iteration the
\* behaviour that ran is that of `current`, and the deadline has not been
\* left behind by the iteration's clock reading.
TickChecksAndRunsCurrent ==
    pc = "running" => (ran = current /\ now < stateEndMs)

\* C5: the state machine never stops: an iteration whose clock reading has
\* reached the deadline enters a mode.
DeadlineReachedEntersMode ==
    [][(pc' = "running" /\ now' >= stateEndMs) => entries' = entries + 1]_vars

\* C6: after setup() and before the first loop() iteration, the mode is
\* NEUTRAL, the deadline is the startup clock reading plus a dwell within
\* NEUTRAL's range, and the four actuator outputs are 0.
SetupState ==
    pc = "ready" =>
        /\ current = NEUTRAL
        /\ stateEndMs = enterMs + dwell
        /\ dwell >= 1000 * DWELL[NEUTRAL + 1].lo
        /\ dwell <= 1000 * DWELL[NEUTRAL + 1].hi
        /\ \A p \in PinNames : pin[p] = 0

\* setup() done with a dwell from the upper end of the range
SetupState_witness ==
    /\ pc = "ready"
    /\ entries = 1
    /\ dwell > 1000 * DWELL[NEUTRAL + 1].lo
    /\ stateEndMs > dwell

DwellWithinScaledRange ==
    (pc = "returned" /\ arg.fn = "sampleDwellMillis") =>
        /\ 1000 * DWELL[arg.s + 1].lo * SPEED_FACTOR[2] <= ret * SPEED_FACTOR[1]
        /\ ret * SPEED_FACTOR[1] <= 1000 * DWELL[arg.s + 1].hi * SPEED_FACTOR[2]

\* C8, amended: the dwell is a whole number of milliseconds between the
\* lower end of the interval rounded down and the upper end.
DwellWithinTruncatedRange ==
    (pc = "returned" /\ arg.fn = "sampleDwellMillis") =>
        /\ (1000 * DWELL[arg.s + 1].lo * SPEED_FACTOR[2]) \div SPEED_FACTOR[1] <= ret
        /\ ret * SPEED_FACTOR[1] <= 1000 * DWELL[arg.s + 1].hi * SPEED_FACTOR[2]

\* a dwell below the real lower end: NEUTRAL at SPEED_FACTOR 3, draw 0
DwellWithinTruncatedRange_witness ==
    /\ pc = "returned"
    /\ arg.fn = "sampleDwellMillis"
    /\ arg.s = NEUTRAL
    /\ SPEED_FACTOR = <<3, 1>>
    /\ ret = 1666

\* sum of the first n entries of a row
RECURSIVE RowSum(_, _)
RowSum(row, n) == IF n = 0 THEN 0 ELSE row[n] + RowSum(row, n - 1)

\* C9: sampleNextState returns one of the five modes, and returns the last
\* one (index 4) when no cumulative sum of the row reaches the draw.
SamplerReturnsMode ==
    (pc = "returned" /\ arg.fn = "sampleNextState") =>
        /\ ret \in Modes
        /\ (\A n \in 1..5 : arg.k * 100 > RowSum(arg.row, n) * RandMax) => ret = 4

\* a row summing to 0.5 and a draw above it: the fallback is taken
SamplerReturnsMode_witness ==
    /\ pc = "returned"
    /\ arg.fn = "sampleNextState"
    /\ arg.row = <<10, 10, 10, 10, 10>>
    /\ arg.k = RandMax - 1
    /\ ret = 4

\* C10: the mode selected never has probability 0, and the draw r = 0
\* selects the first mode of the row whose probability is not 0.
ZeroDrawSelectsFirstNonzero ==
    (pc = "returned" /\ arg.fn = "sampleNextState") =>
        /\ arg.row[ret + 1] # 0
        /\ arg.k = 0 => \A j \in 1..ret : arg.row[j] = 0

\* C11: for a period of at least 10, each waveform has the same output at
\* t and at t + k * period; triWave and sineWave stay within [minL, maxL]
\* (the lower end rounded down to the fixed-point unit), squareWave and
\* heartPulse within [0, 1].
WaveformPeriodicInRange ==
    (pc = "returned" /\ arg.fn \in {"triWave", "sineWave", "squareWave", "heartPulse"}
        /\ arg.period >= 10) =>
        /\ ret.out = ret.outK
        /\ IF arg.fn \in {"triWave", "sineWave"}
           THEN /\ ret.out >= (arg.range[1] * WaveDen) \div 100
                /\ ret.out * 100 <= arg.range[2] * WaveDen
           ELSE ret.out \in 0..WaveDen

\* the square wave of runAngry in its low part, two periods later
WaveformPeriodicInRange_witness ==
    /\ pc = "returned"
    /\ arg.fn = "squareWave"
    /\ arg.period = 900
    /\ arg.t = 449
    /\ arg.k = 2
    /\ ret.out = 0
    /\ ret.outK = 0

\* C12: from one tick to the next the phase index of a waveform advances
\* by the elapsed milliseconds modulo the period, also when the clock wraps
\* from 2^32 - 1 to 0 in between.
PhaseContinuousAcrossWrap ==
    pc = "ticked" =>
        ret.after = (ret.before + ret.elapsed) % arg.period

\* C13: every waveform call divides by a period of at least 10, whatever
\* period it is given (0 included), so none divides by zero.
WaveformPeriodClamped ==
    (pc = "returned" /\ arg.fn \in {"triWave", "sineWave", "squareWave", "heartPulse"}) =>
        ret.div >= 10

\* C14: on the base channel, for error < -10 the valve command is 0 and the
\* pump command is 50 + floor(|error|) * 205 / 110 (integer division); for
\* error > 10 the pump command is 0 and the valve command is
\* 230 + floor(error) * 25 / 110; a reading one unit further from the target
\* never gives a smaller command.
BaseRemap ==
    (pc = "returned" /\ arg.fn = "setPressureMiddle") =>
        LET e == arg.currentP * RegDen - (40 * RegDen + 70 * arg.desiredNum)
            mag == (IF e < 0 THEN -e ELSE e) \div RegDen
            below == setPressureMiddle(arg.desiredNum, RegDen, arg.currentP - 1)
            above == setPressureMiddle(arg.desiredNum, RegDen, arg.currentP + 1)
        IN  /\ e < (-10) * RegDen =>
                /\ pin["PIN_VALVE_BASE"] = 0
                /\ pin["PIN_PUMP_BASE"] = 50 + (mag * 205) \div 110
                /\ arg.currentP > 0 => below[1][2] >= pin["PIN_PUMP_BASE"]
            /\ e > 10 * RegDen =>
                /\ pin["PIN_PUMP_BASE"] = 0
                /\ pin["PIN_VALVE_BASE"] = 230 + (mag * 25) \div 110
                /\ arg.currentP < AdcMax => above[1][2] >= pin["PIN_VALVE_BASE"]

\* error = -50: level 1 (target 110) and reading 60 give pump 143
BaseRemap_witness ==
    /\ pc = "returned"
    /\ arg.fn = "setPressureMiddle"
    /\ arg.desiredNum = RegDen
    /\ arg.currentP = 60
    /\ pin["PIN_PUMP_BASE"] = 143
    /\ pin["PIN_VALVE_BASE"] = 0

\* C15: in CALM the leaves sine runs 500 ms behind the base sine: its phase
\* index at time t is the one the base sine had at t - 500.
CalmLeavesLagBase ==
    (pc = "ran" /\ ran = CALM /\ arg.t >= 500) =>
        ret.leavesT % 8000 = (arg.t - 500) % 8000

\* C16: the outputs of a behaviour depend only on the mode, the clock
\* reading and the sensor readings: they are those of the same call made
\* first thing after start-up.
BehaviourOutputsStateless ==
    pc = "ran" =>
        LET b == runBehavior(ran, arg.t, arg.a1, arg.a2, 0)
        IN  /\ ret.baseL = b.baseL
            /\ ret.leavesL = b.leavesL
            /\ pin = analogWrites([p \in PinNames |-> 0], b.writes)
            /\ leds = b.leds

\* C20: the target level a behaviour gives to each regulator lies in [0,1],
\* so the target pressure minP + (maxP - minP) * level lies in [minP, maxP].
TargetLevelsInUnitRange ==
    pc = "ran" =>
        /\ ret.baseL \in 0..WaveDen
        /\ ret.leavesL \in 0..WaveDen
        /\ 40 * WaveDen + 70 * ret.baseL \in (40 * WaveDen)..(110 * WaveDen)
        /\ 40 * WaveDen + 560 * ret.leavesL \in (40 * WaveDen)..(600 * WaveDen)

\* CURIOUS past one period of its triangle wave, on the falling half
TargetLevelsInUnitRange_witness ==
    /\ pc = "ran"
    /\ ran = CURIOUS
    /\ arg.t = 2000
    /\ ret.leavesL > 0
    /\ ret.leavesL < WaveDen

\* C17: the value written to the base pump never exceeds MAX_PWM_BASE and
\* the value written to the leaves pump never exceeds MAX_PWM_LEAVES.
PumpWithinCap ==
    /\ pin["PIN_PUMP_BASE"] <= MAX_PWM_BASE
    /\ pin["PIN_PUMP_LEAVES"] <= MAX_PWM_LEAVES

\* C18: with every analogWrite a step of its own, the pump output and the
\* valve output of one channel are never both nonzero.
PumpValveNeverBothOn ==
    /\ ~(pin["PIN_PUMP_BASE"] # 0 /\ pin["PIN_VALVE_BASE"] # 0)
    /\ ~(pin["PIN_PUMP_LEAVES"] # 0 /\ pin["PIN_VALVE_LEAVES"] # 0)

\* C19: of the 10000 draws, exactly 10000 * P[i][j] make
\* sampleNextState(i) return j.
DrawCountsMatchMatrix ==
    (pc = "returned" /\ arg.fn = "countDraws") =>
        ret = 100 * P[arg.s + 1][arg.j + 1]

====
